---------------------------- MODULE Spec2Model ----------------------------
(***************************************************************************)
(* A model of find_cycles.py: build_graph, find_all_cycles (the recursive  *)
(* three-colour depth-first search) and deduplicate_cycles.                *)
(*                                                                         *)
(* Three specifications share the variables:                               *)
(*   Spec / FairSpec  find_all_cycles followed by deduplicate_cycles, on   *)
(*                    every key-closed graph within the bounds (FairSpec   *)
(*                    adds weak fairness and has its own edge bound);      *)
(*   SpecDedup        deduplicate_cycles on every bounded list of cycles;  *)
(*   SpecBuild        build_graph on every bounded workbook.               *)
(*                                                                         *)
(* In Spec and SpecDedup a node label is modelled by its rank in Python's  *)
(* string order (min(cycle) only compares labels).  In SpecBuild a string  *)
(* is a sequence of one-character strings, so that strip, lower and split  *)
(* are computed.                                                           *)
(*                                                                         *)
(* The order in which `for node in graph` and `for neighbour in graph[n]`  *)
(* yield their elements is not fixed by the program (dict insertion order  *)
(* of the input, set iteration order): each loop takes any element it has  *)
(* not taken yet.                                                          *)
(***************************************************************************)
EXTENDS Integers, Sequences, FiniteSets, TLC

VARIABLES
    pc,            \* position of the program
    graph,         \* dict node -> set of nodes
    color,         \* find_all_cycles: dict node -> WHITE/GRAY/BLACK
    path,          \* dfs: the list `path`
    path_set,      \* dfs: the set `path_set`
    cycles,        \* find_all_cycles: the list `cycles`; argument of deduplicate_cycles
    stack,         \* the recursion stack of dfs: frames [node, todo]
    pending,       \* nodes the driver loop `for node in graph` has not reached yet
    calls,         \* history: how many times dfs was entered for each node
    seen,          \* deduplicate_cycles: the set `seen`
    unique,        \* deduplicate_cycles: the list `unique`
    idx,           \* deduplicate_cycles: position of the loop `for cycle in cycles`
    workbook,      \* build_graph: the sheets, in workbook.sheetnames order
    separator,     \* build_graph: the separator, or None
    sheet_no,      \* build_graph: position of the loop over workbook.sheetnames
    row_no,        \* build_graph: position of the loop over the sheet's data rows
    cols,          \* build_graph: <<src_idx, tgt_idx>> of the current sheet
    edge_origins   \* dict <<source, target>> -> list of sheet names

vars == <<pc, graph, color, path, path_set, cycles, stack, pending, calls,
          seen, unique, idx, workbook, separator, sheet_no, row_no, cols,
          edge_origins>>

findVars  == <<graph, color, path, path_set, stack, pending, calls>>
dedupVars == <<seen, unique, idx>>
buildVars == <<workbook, separator, sheet_no, row_no, cols, edge_origins>>

(***************************************************************************)
(* Bounds.                                                                 *)
(***************************************************************************)
MaxNodes == 3
MaxEdges == 4
MaxFairEdges == 3
MaxCycles == 2
MaxSheets == 2
MaxRows == 2

(***************************************************************************)
(* find_all_cycles                                                         *)
(***************************************************************************)
WHITE == 0
GRAY  == 1
BLACK == 2

Nodes(g) == DOMAIN g

\* graph.get(node, [])
Neighbours(g, node) == IF node \in DOMAIN g THEN g[node] ELSE {}

\* path.index(neighbour): the first position holding it
Index(p, x) == CHOOSE i \in 1..Len(p) : p[i] = x /\ \A j \in 1..(i-1) : p[j] # x

CycleFromWholePath(p, neighbour) == p

CycleFromPrefix(p, neighbour) == SubSeq(p, 1, Index(p, neighbour))

\* cycle_start = path.index(neighbour); path[cycle_start:]
CycleFrom(p, neighbour) == SubSeq(p, Index(p, neighbour), Len(p))

IsBackEdgeNoSelfLoop(node, neighbour) ==
    color[neighbour] = GRAY /\ neighbour \in path_set /\ neighbour # node

\* color[neighbour] == GRAY and neighbour in path_set, for a neighbour of
\* node
IsBackEdge(node, neighbour) ==
    color[neighbour] = GRAY /\ neighbour \in path_set

ShouldRecurseNotGray(neighbour) == color[neighbour] # GRAY

\* elif color[neighbour] == WHITE
ShouldRecurse(neighbour) == color[neighbour] = WHITE

ColorOnExitUnmark == WHITE

\* color[node] = BLACK, the colour a node gets when dfs leaves it
ColorOnExit == BLACK

\* the innermost active call of dfs: its node and the neighbours its loop
\* has not examined yet
Top == stack[Len(stack)]

\* the loop of the innermost call has examined neighbour
Consume(neighbour) ==
    [stack EXCEPT ![Len(stack)].todo = @ \ {neighbour}]

\* The state of the program when dfs(node, color, path, path_set) has run
\* its first three statements.
EnterDfs(node, p, ps) ==
    /\ color' = [color EXCEPT ![node] = GRAY]
    /\ path' = Append(p, node)
    /\ path_set' = ps \cup {node}
    /\ calls' = [calls EXCEPT ![node] = @ + 1]

\* for node in graph: if color[node] == WHITE: dfs(node, color, [], set())
DriverStart ==
    /\ pc = "driver"
    /\ \E node \in pending :
         /\ color[node] = WHITE
         /\ EnterDfs(node, <<>>, {})
         /\ stack' = <<[node |-> node, todo |-> Neighbours(graph, node)]>>
         /\ pending' = pending \ {node}
    /\ pc' = "dfs"
    /\ UNCHANGED <<graph, cycles, dedupVars, buildVars>>

\* for node in graph: color[node] is not WHITE, nothing to do
DriverSkip ==
    /\ pc = "driver"
    /\ \E node \in pending :
         /\ color[node] # WHITE
         /\ pending' = pending \ {node}
    /\ UNCHANGED <<pc, graph, color, path, path_set, cycles, stack, calls,
                   dedupVars, buildVars>>

\* the neighbour closes a cycle: cycles.append(path[cycle_start:])
DfsCloseCycle ==
    /\ pc = "dfs"
    /\ \E neighbour \in Top.todo :
         /\ IsBackEdge(Top.node, neighbour)
         /\ cycles' = Append(cycles, CycleFrom(path, neighbour))
         /\ stack' = Consume(neighbour)
    /\ UNCHANGED <<pc, graph, color, path, path_set, pending, calls,
                   dedupVars, buildVars>>

\* elif color[neighbour] == WHITE: dfs(neighbour, color, path, path_set)
DfsRecurse ==
    /\ pc = "dfs"
    /\ \E neighbour \in Top.todo :
         /\ ~IsBackEdge(Top.node, neighbour)
         /\ ShouldRecurse(neighbour)
         /\ EnterDfs(neighbour, path, path_set)
         /\ stack' = Append(Consume(neighbour),
                            [node |-> neighbour,
                             todo |-> Neighbours(graph, neighbour)])
    /\ UNCHANGED <<pc, graph, cycles, pending, dedupVars, buildVars>>

\* neither branch: the neighbour is skipped
DfsSkip ==
    /\ pc = "dfs"
    /\ \E neighbour \in Top.todo :
         /\ ~IsBackEdge(Top.node, neighbour)
         /\ ~ShouldRecurse(neighbour)
         /\ stack' = Consume(neighbour)
    /\ UNCHANGED <<pc, graph, color, path, path_set, cycles, pending, calls,
                   dedupVars, buildVars>>

\* the loop over the neighbours is over: path.pop(); path_set.discard(node);
\* color[node] = BLACK; return to the caller
DfsReturn ==
    /\ pc = "dfs"
    /\ Top.todo = {}
    /\ path' = SubSeq(path, 1, Len(path) - 1)
    /\ path_set' = path_set \ {Top.node}
    /\ color' = [color EXCEPT ![Top.node] = ColorOnExit]
    /\ stack' = SubSeq(stack, 1, Len(stack) - 1)
    /\ pc' = IF Len(stack) = 1 THEN "driver" ELSE "dfs"
    /\ UNCHANGED <<graph, cycles, pending, calls, dedupVars, buildVars>>

\* return cycles; main hands them to deduplicate_cycles, which starts with
\* seen = set(); unique = []
FindReturn ==
    /\ pc = "driver"
    /\ pending = {}
    /\ pc' = "dedup"
    /\ seen' = {}
    /\ unique' = <<>>
    /\ idx' = 1
    /\ UNCHANGED <<findVars, cycles, buildVars>>

(***************************************************************************)
(* deduplicate_cycles                                                      *)
(***************************************************************************)
\* min(cycle), labels compared by rank
Min(cycle) ==
    CHOOSE x \in {cycle[i] : i \in 1..Len(cycle)} :
        \A i \in 1..Len(cycle) : x <= cycle[i]

RotatedNot(cycle) == cycle

\* min_idx = cycle.index(min(cycle)); tuple(cycle[min_idx:] + cycle[:min_idx])
Rotated(cycle) ==
    LET min_idx == Index(cycle, Min(cycle))
    IN  SubSeq(cycle, min_idx, Len(cycle)) \o SubSeq(cycle, 1, min_idx - 1)

\* one iteration of `for cycle in cycles`: if rotated not in seen:
\* seen.add(rotated); unique.append(cycle)
DedupStep ==
    /\ pc = "dedup"
    /\ idx <= Len(cycles)
    /\ LET rotated == Rotated(cycles[idx])
       IN  IF rotated \notin seen
           THEN /\ seen' = seen \cup {rotated}
                /\ unique' = Append(unique, cycles[idx])
           ELSE UNCHANGED <<seen, unique>>
    /\ idx' = idx + 1
    /\ UNCHANGED <<pc, findVars, cycles, buildVars>>

\* return unique
DedupReturn ==
    /\ pc = "dedup"
    /\ idx > Len(cycles)
    /\ pc' = "done"
    /\ UNCHANGED <<findVars, cycles, dedupVars, buildVars>>

(***************************************************************************)
(* Inputs and specifications of the cycle search.                          *)
(***************************************************************************)
NoBuild ==
    /\ workbook = <<>>
    /\ separator = "None"
    /\ sheet_no = 0
    /\ row_no = 0
    /\ cols = <<0, 0>>
    /\ edge_origins = <<>>

\* every graph over the keys 1..n, n <= MaxNodes, with at most maxEdges
\* edges; every target is a key
Graphs(maxEdges) ==
    UNION { { [s \in 1..n |-> {t \in 1..n : <<s, t>> \in E}] :
                E \in {F \in SUBSET ((1..n) \X (1..n)) :
                          Cardinality(F) <= maxEdges} } :
            n \in 0..MaxNodes }

\* find_all_cycles(g) is entered:
\* cycles = []; color = {node: WHITE for node in graph}
FindEntry(g) ==
    /\ graph = g
    /\ pc = "driver"
    /\ color = [n \in Nodes(g) |-> WHITE]
    /\ path = <<>>
    /\ path_set = {}
    /\ cycles = <<>>
    /\ stack = <<>>
    /\ pending = Nodes(g)
    /\ calls = [n \in Nodes(g) |-> 0]
    /\ seen = {}
    /\ unique = <<>>
    /\ idx = 0
    /\ NoBuild

InitFind == \E g \in Graphs(MaxEdges) : FindEntry(g)

InitFair == \E g \in Graphs(MaxFairEdges) : FindEntry(g)

NextFind ==
    \/ DriverStart
    \/ DriverSkip
    \/ DfsCloseCycle
    \/ DfsRecurse
    \/ DfsSkip
    \/ DfsReturn
    \/ FindReturn
    \/ DedupStep
    \/ DedupReturn

Spec == InitFind /\ [][NextFind]_vars

\* the program is one thread that runs to completion; the graphs of this
\* specification have at most MaxFairEdges edges
FairSpec == InitFair /\ [][NextFind]_vars /\ WF_vars(NextFind)

(***************************************************************************)
(* Inputs and specification of deduplicate_cycles alone.                   *)
(***************************************************************************)
\* the non-empty sequences of pairwise distinct labels 1..MaxNodes
SimpleCycles ==
    UNION { {c \in [1..k -> 1..MaxNodes] :
                \A i, j \in 1..k : i # j => c[i] # c[j]} :
            k \in 1..MaxNodes }

\* the lists of at most MaxCycles simple cycles
CycleLists == UNION { [1..k -> SimpleCycles] : k \in 0..MaxCycles }

\* deduplicate_cycles(cycles) is entered: seen = set(); unique = []
InitDedup ==
    /\ cycles \in CycleLists
    /\ pc = "dedup"
    /\ seen = {}
    /\ unique = <<>>
    /\ idx = 1
    /\ graph = <<>>
    /\ color = <<>>
    /\ path = <<>>
    /\ path_set = {}
    /\ stack = <<>>
    /\ pending = {}
    /\ calls = <<>>
    /\ NoBuild

NextDedup ==
    \/ DedupStep
    \/ DedupReturn

SpecDedup == InitDedup /\ [][NextDedup]_vars

(***************************************************************************)
(* build_graph.  A string is a sequence of one-character strings; None is  *)
(* the cell value None.  A cell holds None or a string (str(value) of a    *)
(* value that is already text).  A sheet is [name, header, rows]: the      *)
(* header row and the data rows are sequences of cells by column position; *)
(* a sheet's name stands for its title, and titles of a workbook differ.   *)
(***************************************************************************)
None == <<"None">>

Whitespace == {" ", "\t", "\n"}

\* str.lower on the characters of the model
Lower(c) == CASE c = "S" -> "s" [] c = "T" -> "t" [] OTHER -> c

LowerStr(s) == [i \in 1..Len(s) |-> Lower(s[i])]

RECURSIVE LStrip(_)
LStrip(s) ==
    IF s # <<>> /\ Head(s) \in Whitespace THEN LStrip(Tail(s)) ELSE s

RECURSIVE RStrip(_)
RStrip(s) ==
    IF s # <<>> /\ s[Len(s)] \in Whitespace
    THEN RStrip(SubSeq(s, 1, Len(s) - 1))
    ELSE s

\* str.strip()
Strip(s) == RStrip(LStrip(s))

\* str.split(sep) for a one-character separator: the pieces between the
\* separators, empty ones included
RECURSIVE Split(_, _)
Split(s, sep) ==
    IF \A i \in 1..Len(s) : s[i] # sep
    THEN <<s>>
    ELSE LET i == CHOOSE k \in 1..Len(s) :
                      s[k] = sep /\ \A j \in 1..(k - 1) : s[j] # sep
         IN  <<SubSeq(s, 1, i - 1)>> \o Split(SubSeq(s, i + 1, Len(s)), sep)

\* [t.strip() for t in pieces if t.strip()]
RECURSIVE StripPieces(_)
StripPieces(pieces) ==
    IF pieces = <<>> THEN <<>>
    ELSE IF Strip(Head(pieces)) # <<>>
         THEN <<Strip(Head(pieces))>> \o StripPieces(Tail(pieces))
         ELSE StripPieces(Tail(pieces))

\* headers = [str(cell.value).strip() if cell.value is not None else ""]
Headers(sheet) ==
    [i \in 1..Len(sheet.header) |->
        IF sheet.header[i] # None THEN Strip(sheet.header[i]) ELSE <<>>]

\* headers_lower = [h.lower() for h in headers]
HeadersLower(sheet) ==
    LET headers == Headers(sheet)
    IN  [i \in 1..Len(headers) |-> LowerStr(headers[i])]

InList(l, x) == \E i \in 1..Len(l) : l[i] = x

\* not (src_lower not in headers_lower or tgt_lower not in headers_lower)
HasColumns(headers_lower, src_lower, tgt_lower) ==
    /\ InList(headers_lower, src_lower)
    /\ InList(headers_lower, tgt_lower)

\* <<src_idx, tgt_idx>>, positions counted from 1
Columns(headers_lower, src_lower, tgt_lower) ==
    << Index(headers_lower, src_lower), Index(headers_lower, tgt_lower) >>

\* the three `continue` of the loop over the rows
RowSkipped(row, c) ==
    \/ row[c[1]] = None
    \/ row[c[2]] = None
    \/ Strip(row[c[1]]) = <<>>
    \/ Strip(row[c[2]]) = <<>>

\* the list `targets` of a row that is not skipped
Targets(row, c, sep) ==
    LET raw_targets == Strip(row[c[2]])
    IN  IF sep # "None" /\ sep # ""
        THEN StripPieces(Split(raw_targets, sep))
        ELSE <<raw_targets>>

\* graph[source_val].add(target_val), graph a defaultdict(set)
AddEdge(g, source_val, target_val) ==
    IF source_val \in DOMAIN g
    THEN [g EXCEPT ![source_val] = @ \cup {target_val}]
    ELSE g @@ (source_val :> {target_val})

AppendOriginOncePerSheet(eo, source_val, target_val, sheet_name) ==
    LET e == <<source_val, target_val>>
    IN  IF e \in DOMAIN eo
        THEN IF InList(eo[e], sheet_name)
             THEN eo
             ELSE [eo EXCEPT ![e] = Append(@, sheet_name)]
        ELSE eo @@ (e :> <<sheet_name>>)

\* edge_origins[(source_val, target_val)].append(sheet_name), a
\* defaultdict(list)
AppendOrigin(eo, source_val, target_val, sheet_name) ==
    LET e == <<source_val, target_val>>
    IN  IF e \in DOMAIN eo
        THEN [eo EXCEPT ![e] = Append(@, sheet_name)]
        ELSE eo @@ (e :> <<sheet_name>>)

EnsureKeyNever(g, target_val) == g

EnsureKeyOverwrite(g, target_val) ==
    [n \in DOMAIN g \cup {target_val} |->
        IF n = target_val THEN {} ELSE g[n]]

\* if target_val not in graph: graph[target_val] = set()
EnsureKey(g, target_val) ==
    IF target_val \in DOMAIN g THEN g ELSE g @@ (target_val :> {})

\* for target_val in targets: the three statements of the loop body; st is
\* [graph, edge_origins]
RECURSIVE AddTargets(_, _, _, _)
AddTargets(st, source_val, targets, sheet_name) ==
    IF targets = <<>> THEN st
    ELSE AddTargets(
           [graph |-> EnsureKey(AddEdge(st.graph, source_val, Head(targets)),
                                Head(targets)),
            edge_origins |-> AppendOrigin(st.edge_origins, source_val,
                                          Head(targets), sheet_name)],
           source_val, Tail(targets), sheet_name)

\* one iteration of `for row in sheet.iter_rows(min_row=2, ...)`
RowResult(st, row, c, sep, sheet_name) ==
    IF RowSkipped(row, c) THEN st
    ELSE AddTargets(st, Strip(row[c[1]]), Targets(row, c, sep), sheet_name)

\* the first k data rows of a sheet that has both columns
RECURSIVE RowsResult(_, _, _, _, _)
RowsResult(st, sheet, c, sep, k) ==
    IF k = 0 THEN st
    ELSE RowResult(RowsResult(st, sheet, c, sep, k - 1),
                   sheet.rows[k], c, sep, sheet.name)

\* one iteration of `for sheet_name in workbook.sheetnames`
SheetResult(st, sheet, source_col, target_col, sep) ==
    LET headers_lower == HeadersLower(sheet)
        src_lower == LowerStr(source_col)
        tgt_lower == LowerStr(target_col)
    IN  IF ~HasColumns(headers_lower, src_lower, tgt_lower) THEN st
        ELSE RowsResult(st, sheet,
                        Columns(headers_lower, src_lower, tgt_lower), sep,
                        Len(sheet.rows))

RECURSIVE SheetsResult(_, _, _, _, _)
SheetsResult(wb, source_col, target_col, sep, k) ==
    IF k = 0 THEN [graph |-> <<>>, edge_origins |-> <<>>]
    ELSE SheetResult(SheetsResult(wb, source_col, target_col, sep, k - 1),
                     wb[k], source_col, target_col, sep)

\* build_graph(workbook, source_col, target_col, separator) as a function of
\* its arguments
build_graph(wb, source_col, target_col, sep) ==
    SheetsResult(wb, source_col, target_col, sep, Len(wb))

\* the configured columns
source_col == <<"S">>
target_col == <<"t">>

\* the sheet the loop over workbook.sheetnames is in
Sheet == workbook[sheet_no]

\* the next sheet has both columns: src_idx and tgt_idx are set and the loop
\* over its rows starts
OpenSheet ==
    /\ pc = "sheets"
    /\ sheet_no < Len(workbook)
    /\ LET headers_lower == HeadersLower(workbook[sheet_no + 1])
           src_lower == LowerStr(source_col)
           tgt_lower == LowerStr(target_col)
       IN  /\ HasColumns(headers_lower, src_lower, tgt_lower)
           /\ cols' = Columns(headers_lower, src_lower, tgt_lower)
    /\ sheet_no' = sheet_no + 1
    /\ row_no' = 0
    /\ pc' = "rows"
    /\ UNCHANGED <<findVars, cycles, dedupVars, workbook, separator,
                   edge_origins>>

\* the next sheet lacks a column: continue
SkipSheet ==
    /\ pc = "sheets"
    /\ sheet_no < Len(workbook)
    /\ ~HasColumns(HeadersLower(workbook[sheet_no + 1]),
                   LowerStr(source_col), LowerStr(target_col))
    /\ sheet_no' = sheet_no + 1
    /\ UNCHANGED <<pc, color, path, path_set, stack, pending, calls, graph,
                   cycles, dedupVars, workbook, separator, row_no, cols,
                   edge_origins>>

\* one data row, with its loop over the targets
ProcessRow ==
    /\ pc = "rows"
    /\ row_no < Len(Sheet.rows)
    /\ LET st == RowResult([graph |-> graph, edge_origins |-> edge_origins],
                           Sheet.rows[row_no + 1], cols, separator,
                           Sheet.name)
       IN  /\ graph' = st.graph
           /\ edge_origins' = st.edge_origins
    /\ row_no' = row_no + 1
    /\ UNCHANGED <<pc, color, path, path_set, stack, pending, calls, cycles,
                   dedupVars, workbook, separator, sheet_no, cols>>

\* the rows of the sheet are exhausted
EndSheet ==
    /\ pc = "rows"
    /\ row_no = Len(Sheet.rows)
    /\ pc' = "sheets"
    /\ UNCHANGED <<findVars, cycles, dedupVars, buildVars>>

\* return graph, edge_origins
BuildReturn ==
    /\ pc = "sheets"
    /\ sheet_no = Len(workbook)
    /\ pc' = "built"
    /\ UNCHANGED <<findVars, cycles, dedupVars, buildVars>>

(***************************************************************************)
(* Inputs and specification of build_graph.                                *)
(***************************************************************************)
\* header rows: the configured names; the same columns swapped, in another
\* case and padded; a sheet without the target column
HeaderRows ==
    { << <<"S">>, <<"t">> >>,
      << <<" ", "T">>, <<"s", " ">> >>,
      << <<"S">>, None >> }

\* data rows, by column position: a None cell, a blank cell (the source or
\* the target, by the header row), a padded pair, a cell of several targets
DataRows ==
    { << <<"a">>, None >>,
      << <<" ">>, <<"b">> >>,
      << <<" ", "a">>, <<"b", " ">> >>,
      << <<"b">>, <<"a", ",", " ", "b", ",", ",", "a", " ">> >> }

Separators == {",", "None"}

RECURSIVE Sum(_, _)
Sum(f, k) == IF k = 0 THEN 0 ELSE f[k] + Sum(f, k - 1)

\* the workbook whose i-th sheet is named i, has header row hdrs[i] and the
\* next counts[i] rows of flat
MakeWorkbook(hdrs, counts, flat) ==
    [i \in 1..Len(hdrs) |->
        [name   |-> i,
         header |-> hdrs[i],
         rows   |-> SubSeq(flat, Sum(counts, i - 1) + 1, Sum(counts, i))]]

\* graph = defaultdict(set); edge_origins = defaultdict(list)
InitBuild ==
    /\ \E k \in 0..MaxSheets :
         \E counts \in {c \in [1..k -> 0..MaxRows] : Sum(c, k) <= MaxRows} :
           \E hdrs \in [1..k -> HeaderRows] :
             \E flat \in [1..Sum(counts, k) -> DataRows] :
               workbook = MakeWorkbook(hdrs, counts, flat)
    /\ separator \in Separators
    /\ pc = "sheets"
    /\ sheet_no = 0
    /\ row_no = 0
    /\ cols = <<0, 0>>
    /\ graph = <<>>
    /\ edge_origins = <<>>
    /\ color = <<>>
    /\ path = <<>>
    /\ path_set = {}
    /\ cycles = <<>>
    /\ stack = <<>>
    /\ pending = {}
    /\ calls = <<>>
    /\ seen = {}
    /\ unique = <<>>
    /\ idx = 0

NextBuild ==
    \/ OpenSheet
    \/ SkipSheet
    \/ ProcessRow
    \/ EndSheet
    \/ BuildReturn

SpecBuild == InitBuild /\ [][NextBuild]_vars

(***************************************************************************)
(* Properties of the cycle search and of the deduplication.                *)
(***************************************************************************)
\* b is a of a rotation: b starts k places later in the same cyclic order
IsRotation(a, b) ==
    /\ Len(a) = Len(b)
    /\ \/ Len(a) = 0
       \/ \E k \in 0..(Len(a) - 1) :
             \A i \in 1..Len(a) : b[i] = a[((i - 1 + k) % Len(a)) + 1]

\* c is a closed path of g over pairwise distinct nodes
IsElementaryCycle(g, c) ==
    /\ Len(c) >= 1
    /\ \A i \in 1..Len(c) : c[i] \in DOMAIN g
    /\ \A i, j \in 1..Len(c) : i # j => c[i] # c[j]
    /\ \A i \in 1..(Len(c) - 1) : c[i + 1] \in g[c[i]]
    /\ c[1] \in g[c[Len(c)]]

ElementaryCycles(g) ==
    UNION { {c \in [1..k -> DOMAIN g] : IsElementaryCycle(g, c)} :
            k \in 1..Cardinality(DOMAIN g) }

\* the nodes reached from the set S by 1..k edges
RECURSIVE ReachIn(_, _, _)
ReachIn(g, S, k) ==
    IF k = 0 THEN {}
    ELSE LET N == UNION {g[x] : x \in S}
         IN  N \cup ReachIn(g, N, k - 1)

\* no node reaches itself
Acyclic(g) ==
    \A n \in DOMAIN g : n \notin ReachIn(g, {n}, Cardinality(DOMAIN g))

\* find_all_cycles has returned
Found == pc \in {"dedup", "done"}

Reported(c) == \E i \in 1..Len(cycles) : IsRotation(cycles[i], c)

\* C1: when find_all_cycles has returned, every elementary cycle of the
\* graph has a rotation in the returned list.
C1_Completeness ==
    Found => \A c \in ElementaryCycles(graph) : Reported(c)

\* C2: every sequence in the list of cycles is an elementary cycle of the
\* input graph (non-empty, pairwise distinct nodes, consecutive edges and
\* the closing edge), so on a graph without cycles the returned list is
\* empty.
C2_Soundness ==
    /\ \A i \in 1..Len(cycles) : IsElementaryCycle(graph, cycles[i])
    /\ (Found /\ Acyclic(graph)) => cycles = <<>>

C2_Witness ==
    /\ Found
    /\ Len(cycles) >= 2
    /\ \E i \in 1..Len(cycles) : Len(cycles[i]) = 3
    /\ \E i \in 1..Len(cycles) : Len(cycles[i]) = 2

\* the sequence 1, succ(1), succ(succ(1)), ... of the first k nodes met
\* from node 1 in a graph where every node has one neighbour
RECURSIVE Walk(_, _)
Walk(g, k) ==
    IF k = 1 THEN <<1>>
    ELSE LET w == Walk(g, k - 1)
         IN  Append(w, CHOOSE m \in g[w[k - 1]] : TRUE)

PureCycleSeq(g) == Walk(g, Cardinality(DOMAIN g))

\* g is one simple directed cycle through all its nodes and nothing else
IsPureCycle(g) ==
    /\ DOMAIN g # {}
    /\ \A n \in DOMAIN g : Cardinality(g[n]) = 1
    /\ IsElementaryCycle(g, PureCycleSeq(g))

\* C4: on a graph that is one simple directed cycle and nothing else, the
\* deduplicated result holds exactly one cycle, a rotation of that cycle in
\* the direction of the edges, whichever node the driver starts from.
C4_PureCycle ==
    (pc = "done" /\ IsPureCycle(graph)) =>
        /\ Len(unique) = 1
        /\ IsRotation(PureCycleSeq(graph), unique[1])

C4_Witness ==
    /\ pc = "done"
    /\ IsPureCycle(graph)
    /\ Cardinality(DOMAIN graph) = 3
    /\ Len(unique) = 1
    /\ unique[1][1] = 3

Occurrences(c) == Cardinality({i \in 1..Len(cycles) : cycles[i] = c})

\* C5: when find_all_cycles has returned, the one-element cycle [n] is in
\* the list exactly once for every node n with an edge to itself; for the
\* graph of one node and one edge the list is exactly [[n]].
C5_SelfLoop ==
    Found =>
        /\ \A n \in Nodes(graph) : n \in graph[n] => Occurrences(<<n>>) = 1
        /\ graph = [n \in {1} |-> {1}] => cycles = << <<1>> >>

C5_Witness ==
    /\ Found
    /\ Cardinality({n \in Nodes(graph) : n \in graph[n]}) = 2
    /\ Len(cycles) = 3

\* C10: the list of find_all_cycles never holds two sequences that are
\* rotations of each other (nor one sequence twice), so deduplicate_cycles
\* returns it unchanged.
C10_RawHasNoRotations ==
    /\ \A i, j \in 1..Len(cycles) :
          i < j => ~IsRotation(cycles[i], cycles[j])
    /\ pc = "done" => unique = cycles

C10_Witness ==
    /\ pc = "done"
    /\ Len(cycles) >= 2
    /\ \E i, j \in 1..Len(cycles) :
          /\ i < j
          /\ {cycles[i][k] : k \in 1..Len(cycles[i])} \cap
             {cycles[j][k] : k \in 1..Len(cycles[j])} # {}

\* C9: the search terminates; a colour only moves WHITE -> GRAY -> BLACK,
\* dfs is entered at most once per node, the path is never longer than the
\* number of nodes, and when the search has returned every node is BLACK
\* and path and path_set are empty.
C9_Termination ==
    /\ [][\A n \in Nodes(graph) :
            \/ color'[n] = color[n]
            \/ color[n] = WHITE /\ color'[n] = GRAY
            \/ color[n] = GRAY /\ color'[n] = BLACK]_vars
    /\ [](\A n \in Nodes(graph) : calls[n] <= 1)
    /\ [](Len(path) <= Cardinality(Nodes(graph)))
    /\ [](Found => /\ \A n \in Nodes(graph) : color[n] = BLACK
                   /\ path = <<>>
                   /\ path_set = {})
    /\ <>Found

C9_Witness ==
    /\ Found
    /\ Cardinality(Nodes(graph)) = 3
    /\ \A n \in Nodes(graph) : calls[n] = 1 /\ color[n] = BLACK
    /\ Len(cycles) >= 2

\* the cycles of l[1..k] that are not a rotation of an earlier cycle of l
RECURSIVE FirstOfEachClass(_, _)
FirstOfEachClass(l, k) ==
    IF k = 0 THEN <<>>
    ELSE IF \E j \in 1..(k - 1) : IsRotation(l[j], l[k])
         THEN FirstOfEachClass(l, k - 1)
         ELSE Append(FirstOfEachClass(l, k - 1), l[k])

\* C3: on a list of cycles with pairwise distinct nodes, the cycles kept so
\* far, and the list returned, are exactly the cycles that are not a
\* rotation of an earlier one, unchanged and in the original order.
C3_OnePerRotationClass ==
    /\ pc = "dedup" => unique = FirstOfEachClass(cycles, idx - 1)
    /\ pc = "done" => unique = FirstOfEachClass(cycles, Len(cycles))

\* a rotated copy of a three-node cycle was dropped
C3_Witness ==
    /\ pc = "done"
    /\ Len(cycles) = 2
    /\ Len(cycles[1]) = 3
    /\ cycles[1] # cycles[2]
    /\ IsRotation(cycles[1], cycles[2])
    /\ unique = <<cycles[1]>>

(***************************************************************************)
(* Properties of build_graph.  The occurrences of an edge are defined here *)
(* from the cells, by position, independently of the operators above.      *)
(***************************************************************************)
\* s without the whitespace before its first and after its last other
\* character
Trimmed(s) ==
    LET keep == {i \in 1..Len(s) : s[i] \notin Whitespace}
    IN  IF keep = {} THEN <<>>
        ELSE SubSeq(s, CHOOSE i \in keep : \A j \in keep : i <= j,
                       CHOOSE i \in keep : \A j \in keep : j <= i)

\* the positions before each piece of s: 0 and the separators
PieceStarts(s, sep) == {0} \cup {i \in 1..Len(s) : s[i] = sep}

\* the piece that starts after position b, trimmed
PieceAt(s, sep, b) ==
    LET ends == {i \in (b + 1)..Len(s) : s[i] = sep} \cup {Len(s) + 1}
    IN  Trimmed(SubSeq(s, b + 1, (CHOOSE e \in ends : \A x \in ends : e <= x) - 1))

\* the positions of the first header equal to name, case and padding aside
ColumnOf(sheet, name) ==
    LET hits == {i \in 1..Len(sheet.header) :
                    /\ sheet.header[i] # None
                    /\ LowerStr(Trimmed(sheet.header[i])) = LowerStr(name)}
    IN  IF hits = {} THEN 0 ELSE CHOOSE i \in hits : \A j \in hits : i <= j

\* the trimmed pieces of s from position b on, in order, empty ones left out
RECURSIVE PiecesFrom(_, _, _)
PiecesFrom(s, sep, b) ==
    LET later == {c \in PieceStarts(s, sep) : c > b}
        rest  == IF later = {} THEN <<>>
                 ELSE PiecesFrom(s, sep, CHOOSE c \in later :
                                             \A d \in later : c <= d)
    IN  IF PieceAt(s, sep, b) = <<>> THEN rest
        ELSE <<PieceAt(s, sep, b)>> \o rest

\* the statements <<sheet name, s, t>> "s depends on t" of a data row, the
\* source in column si and the targets in column ti
RowStatements(name, row, si, ti, sep) ==
    IF row[si] = None \/ row[ti] = None THEN <<>>
    ELSE IF Trimmed(row[si]) = <<>> \/ Trimmed(row[ti]) = <<>> THEN <<>>
    ELSE LET ts == IF sep = "None" THEN <<Trimmed(row[ti])>>
                   ELSE PiecesFrom(Trimmed(row[ti]), sep, 0)
         IN  [i \in 1..Len(ts) |-> <<name, Trimmed(row[si]), ts[i]>>]

\* the statements of the first k rows of a sheet, in row order
RECURSIVE RowsStatements(_, _, _, _, _)
RowsStatements(sheet, si, ti, sep, k) ==
    IF k = 0 THEN <<>>
    ELSE RowsStatements(sheet, si, ti, sep, k - 1) \o
         RowStatements(sheet.name, sheet.rows[k], si, ti, sep)

\* nothing for a sheet that lacks one of the configured columns
SheetStatements(sheet, sep) ==
    LET si == ColumnOf(sheet, source_col)
        ti == ColumnOf(sheet, target_col)
    IN  IF si = 0 \/ ti = 0 THEN <<>>
        ELSE RowsStatements(sheet, si, ti, sep, Len(sheet.rows))

\* the statements of the first k sheets, in sheet order
RECURSIVE WorkbookStatements(_, _, _)
WorkbookStatements(wb, sep, k) ==
    IF k = 0 THEN <<>>
    ELSE WorkbookStatements(wb, sep, k - 1) \o SheetStatements(wb[k], sep)

\* the sheet names of the statements of "s depends on t", in order
RECURSIVE NamesOf(_, _, _, _)
NamesOf(stmts, s, t, k) ==
    IF k = 0 THEN <<>>
    ELSE IF stmts[k][2] = s /\ stmts[k][3] = t
         THEN Append(NamesOf(stmts, s, t, k - 1), stmts[k][1])
         ELSE NamesOf(stmts, s, t, k - 1)

\* every label a cell of the workbook can give: the trimmed cells and the
\* trimmed pieces of the cells
CellLabels(wb, sep) ==
    UNION { UNION { UNION { {Trimmed(wb[i].rows[r][c])} \cup
                            {PieceAt(Trimmed(wb[i].rows[r][c]), sep, b) :
                                b \in PieceStarts(Trimmed(wb[i].rows[r][c]), sep)} :
                            c \in {d \in 1..Len(wb[i].rows[r]) :
                                      wb[i].rows[r][d] # None} } :
                    r \in 1..Len(wb[i].rows) } :
            i \in 1..Len(wb) }

Origins(eo, s, t) == IF <<s, t>> \in DOMAIN eo THEN eo[<<s, t>>] ELSE <<>>

Built == pc = "built"

\* C6: after every row, and in the returned graph, every node of a
\* neighbour set is a key of the graph, so the colour map of find_all_cycles
\* made from the keys has every neighbour.
C6_KeyClosure ==
    /\ \A s \in DOMAIN graph : graph[s] \subseteq DOMAIN graph
    /\ LET colour == [node \in DOMAIN graph |-> WHITE]
       IN  \A s \in DOMAIN graph : \A t \in graph[s] : t \in DOMAIN colour

\* a node that is only ever a target is a key with an empty set
C6_Witness ==
    /\ Built
    /\ \E s, t \in DOMAIN graph :
         /\ s # t
         /\ t \in graph[s]
         /\ graph[t] = {}

\* C7: when build_graph has returned, the provenance list of every pair
\* (s, t) holds the sheet name of each statement of "s depends on t", once
\* per statement, in sheet order then row order; a pair has a list exactly
\* when it is an edge of the graph.
C7_Provenance ==
    Built =>
        /\ LET stmts == WorkbookStatements(workbook, separator, Len(workbook))
           IN  \A s, t \in CellLabels(workbook, separator) \cup DOMAIN graph :
                  Origins(edge_origins, s, t) = NamesOf(stmts, s, t, Len(stmts))
        /\ DOMAIN edge_origins =
              {e \in (DOMAIN graph) \X (DOMAIN graph) : e[2] \in graph[e[1]]}
        /\ \A e \in DOMAIN edge_origins : edge_origins[e] # <<>>

\* an edge stated twice in each of two sheets
C7_Witness ==
    /\ Built
    /\ \E e \in DOMAIN edge_origins : edge_origins[e] = <<1, 1, 2, 2>>

Count(l, x) == Cardinality({i \in 1..Len(l) : l[i] = x})

SameBag(l, m) ==
    \A x \in {l[i] : i \in 1..Len(l)} \cup {m[i] : i \in 1..Len(m)} :
        Count(l, x) = Count(m, x)

Permuted(wb, perm) == [i \in 1..Len(wb) |-> wb[perm[i]]]

\* C8: when build_graph has returned, processing the same sheets in any
\* other order gives the same keys and the same neighbour set for every key,
\* and provenance lists with the same sheet names the same number of times.
C8_SheetOrderIndependent ==
    Built =>
        \A perm \in Permutations(1..Len(workbook)) :
            LET other == build_graph(Permuted(workbook, perm), source_col,
                                     target_col, separator)
            IN  /\ other.graph = graph
                /\ DOMAIN other.edge_origins = DOMAIN edge_origins
                /\ \A e \in DOMAIN edge_origins :
                      SameBag(other.edge_origins[e], edge_origins[e])

\* two sheets state the same edge, so another order gives another list
C8_Witness ==
    /\ Built
    /\ Len(workbook) = 2
    /\ \E e \in DOMAIN edge_origins : edge_origins[e] = <<1, 2>>
    /\ \E perm \in Permutations(1..Len(workbook)) :
         build_graph(Permuted(workbook, perm), source_col, target_col,
                     separator).edge_origins # edge_origins

=============================================================================
